---- MODULE Spec2Model ----
(***************************************************************************)
(* Tool-call event pipeline of the computer-use agent dashboard:           *)
(*   - src/lib/agent-events.ts : payload normalizer, result classifier and *)
(*     the event store reducer                                             *)
(*   - src/app/page.tsx        : the ingestion scanner (scan effect), the  *)
(*     reset effect, the stop handler and the session handlers             *)
(*                                                                         *)
(* Three specifications share the variables:                               *)
(*   SpecStore : the reducer driven directly by arbitrary actions          *)
(*   Spec      : the Chat component (message stream, scanner, stop, reset) *)
(*   SpecFn    : the pure functions applied to bounded untyped inputs      *)
(***************************************************************************)
EXTENDS Integers, Sequences, FiniteSets, TLC

VARIABLES
  eventState,       \* useReducer(eventReducer, initialEventState): [byId, order]
  lastAction,       \* SpecStore: the action the reducer applied last (history)
  messages,         \* useChat().messages: sequence of [role, parts]
  status,           \* useChat().status: "ready" | "streaming"
  hasHydrated,      \* useState(false)
  activeSessionId,  \* useState(null): "none" before hydration
  seenCallsRef,     \* useRef(new Set())
  seenResultsRef,   \* useRef(new Set())
  callStartRef,     \* useRef({}): id -> start time
  lastOp,           \* Spec: the handler that ran last (history); "switch" is
                    \* a reset that discarded the entries of the context left,
                    \* "switchscan" the first scan after it
  dispatched,       \* Spec: the actions the last scan dispatched (history)
  fn                \* SpecFn: the inputs and outputs of the pure functions

vars == <<eventState, lastAction, messages, status, hasHydrated, activeSessionId,
          seenCallsRef, seenResultsRef, callStartRef, lastOp, dispatched, fn>>

storeVars == <<eventState, lastAction>>
chatVars  == <<messages, status, hasHydrated, activeSessionId, seenCallsRef,
               seenResultsRef, callStartRef, lastOp, dispatched>>

-----------------------------------------------------------------------------
(* Bounds of the model *)

MaxClock == 1       \* a read of Date.now() yields 0 or MaxClock
MaxDuration == 1    \* durationMs of a directly dispatched register-result
MaxMessages == 2    \* messages in the history
MaxParts == 2       \* parts of the assistant messages of the history

Clock == {0, MaxClock}

-----------------------------------------------------------------------------
(* Untyped JavaScript values (`unknown`): every value carries its typeof tag *)

Undefined == [t |-> "undefined"]
Null      == [t |-> "null"]
Str(s)    == [t |-> "string", s |-> s]
Num(n)    == [t |-> "number", n |-> n, finite |-> TRUE]
NaN       == [t |-> "number", n |-> 0, finite |-> FALSE]
Arr(xs)   == [t |-> "array", xs |-> xs]
Obj(f)    == [t |-> "object", f |-> f]

\* {} : the object with no own property
EmptyMap == [k \in {} |-> Undefined]

\* record.key : undefined when the property is absent
Prop(record, key) == IF key \in DOMAIN record.f THEN record.f[key] ELSE Undefined

\* a ?? b
Nullish(a, b) == IF a = Undefined \/ a = Null THEN b ELSE a

\* the reserved abort marker exported by lib/utils
ABORTED == "User aborted"

-----------------------------------------------------------------------------
(* src/lib/agent-events.ts: defensive field extraction *)

asString(value) == IF value.t = "string" THEN value ELSE Undefined

asNumberAnyNumber(value) == IF value.t = "number" THEN value ELSE Undefined

asNumber(value) == IF value.t = "number" /\ value.finite THEN value ELSE Undefined

asCoordinate(value) ==
  IF value.t # "array" \/ Len(value.xs) # 2 THEN Undefined
  ELSE IF value.xs[1].t # "number" \/ value.xs[2].t # "number" THEN Undefined
  ELSE Arr(<<value.xs[1], value.xs[2]>>)

\* the tag "object" is carried by non-null, non-array objects only
asRecord(value) ==
  IF value.t # "object" THEN Undefined ELSE value

-----------------------------------------------------------------------------
(* src/lib/agent-events.ts: parseToolPayload *)

\* type ComputerAction
ComputerActions ==
  { "screenshot", "left_click", "right_click", "double_click", "mouse_move",
    "type", "key", "wait", "scroll", "unknown" }

\* the type of ComputerPayload.scroll_direction
ScrollDirections == { "up", "down", "left", "right" }

BashPayloadMissingDefault(args) ==
  LET record  == asRecord(args)
      command == IF record # Undefined THEN asString(Prop(record, "command"))
                 ELSE Undefined
  IN  [toolName |-> "bash", command |-> command]

BashPayload(args) ==
  LET record  == asRecord(args)
      command == IF record # Undefined THEN asString(Prop(record, "command"))
                 ELSE Undefined
  IN  [toolName |-> "bash", command |-> Nullish(command, Str(""))]

ComputerPayload(args) ==
  LET record == Nullish(asRecord(args), Obj(EmptyMap))
      action == asString(Prop(record, "action"))
  IN  [toolName         |-> "computer",
       action           |-> Nullish(action, Str("unknown")),
       coordinate       |-> asCoordinate(Prop(record, "coordinate")),
       text             |-> asString(Prop(record, "text")),
       duration         |-> asNumber(Prop(record, "duration")),
       scroll_amount    |-> asNumber(Prop(record, "scroll_amount")),
       scroll_direction |-> asString(Prop(record, "scroll_direction"))]

UnknownPayloadDropsArgs(args) == [toolName |-> "unknown", raw |-> Obj(EmptyMap)]

UnknownPayload(args) ==
  [toolName |-> "unknown", raw |-> Nullish(asRecord(args), Obj(EmptyMap))]

parseToolPayload(toolName, args) ==
  IF toolName = "bash" THEN BashPayload(args)
  ELSE IF toolName = "computer" THEN ComputerPayload(args)
  ELSE UnknownPayload(args)

-----------------------------------------------------------------------------
(* src/lib/agent-events.ts: parseToolResult, deriveStatusFromResult *)

StringResultNoSentinel(result) == [type |-> "text", text |-> result]

StringResult(result) ==
  IF result = Str(ABORTED) THEN [type |-> "aborted", text |-> result]
  ELSE [type |-> "text", text |-> result]

TextRecordResultNoSentinel(record) ==
  [type |-> "text", text |-> Prop(record, "text")]

TextRecordResult(record) ==
  IF Prop(record, "text") = Str(ABORTED)
  THEN [type |-> "aborted", text |-> Prop(record, "text")]
  ELSE [type |-> "text", text |-> Prop(record, "text")]

parseToolResultImageAnyData(result) ==
  IF result = Undefined \/ result = Null THEN Undefined
  ELSE IF result.t = "string" THEN StringResult(result)
  ELSE LET record == asRecord(result) IN
    IF record # Undefined /\ Prop(record, "type") = Str("image")
    THEN [type |-> "image", data |-> Prop(record, "data")]
    ELSE IF record # Undefined /\ Prop(record, "type") = Str("text")
                               /\ Prop(record, "text").t = "string"
    THEN TextRecordResult(record)
    ELSE [type |-> "unknown", raw |-> result]

parseToolResult(result) ==
  IF result = Undefined \/ result = Null THEN Undefined
  ELSE IF result.t = "string" THEN StringResult(result)
  ELSE LET record == asRecord(result) IN
    IF record # Undefined /\ Prop(record, "type") = Str("image")
                          /\ Prop(record, "data").t = "string"
    THEN [type |-> "image", data |-> Prop(record, "data")]
    ELSE IF record # Undefined /\ Prop(record, "type") = Str("text")
                               /\ Prop(record, "text").t = "string"
    THEN TextRecordResult(record)
    ELSE [type |-> "unknown", raw |-> result]

deriveStatusAlwaysSuccess(result) == "success"

deriveStatusFromResult(result) ==
  IF result = Undefined THEN "success"
  ELSE IF result.type = "aborted" THEN "aborted"
  ELSE "success"

-----------------------------------------------------------------------------
(* src/lib/agent-events.ts: the event store reducer *)

initialEventState == [byId |-> EmptyMap, order |-> <<>>]

\* state.byId[id] is truthy exactly when an event is stored under id: invocation
\* ids are provider-generated and never name a property of Object.prototype
HasEvent(state, id) == id \in DOMAIN state.byId

\* { ...byId, [id]: event }
Put(byId, id, event) ==
  [k \in DOMAIN byId \cup {id} |-> IF k = id THEN event ELSE byId[k]]

\* { ...existing, status, durationMs, result }
Spread(existing, over) ==
  [k \in DOMAIN existing \cup DOMAIN over |->
     IF k \in DOMAIN over THEN over[k] ELSE existing[k]]

\* existing.result : undefined for an event that never got one
ResultOf(event) == IF "result" \in DOMAIN event THEN event.result ELSE Undefined

RegisterCallNoGuard(state, action) ==
  [byId  |-> Put(state.byId, action.event.id, action.event),
   order |-> Append(state.order, action.event.id)]

RegisterCallOverwrite(state, action) ==
  IF HasEvent(state, action.event.id)
  THEN [byId  |-> Put(state.byId, action.event.id, action.event),
        order |-> state.order]
  ELSE [byId  |-> Put(state.byId, action.event.id, action.event),
        order |-> Append(state.order, action.event.id)]

RegisterCall(state, action) ==
  IF HasEvent(state, action.event.id) THEN state
  ELSE [byId  |-> Put(state.byId, action.event.id, action.event),
        order |-> Append(state.order, action.event.id)]

RegisterResultMoveToEnd(state, action, dateNow) ==
  LET event == [id         |-> action.id,
                toolName   |-> "unknown",
                timestamp  |-> dateNow,
                status     |-> action.status,
                durationMs |-> action.durationMs,
                payload    |-> [toolName |-> "unknown", raw |-> Obj(EmptyMap)],
                result     |-> action.result]
      rest == SelectSeq(state.order, LAMBDA x : x # action.id)
  IN  IF ~HasEvent(state, action.id)
      THEN [byId |-> Put(state.byId, action.id, event),
            order |-> Append(state.order, action.id)]
      ELSE [byId |-> Put(state.byId, action.id,
                         Spread(state.byId[action.id],
                                [status |-> action.status,
                                 durationMs |-> action.durationMs,
                                 result |-> Nullish(action.result,
                                                    ResultOf(state.byId[action.id]))])),
            order |-> Append(rest, action.id)]

RegisterResultNoRetain(state, action, dateNow) ==
  LET event == [id         |-> action.id,
                toolName   |-> "unknown",
                timestamp  |-> dateNow,
                status     |-> action.status,
                durationMs |-> action.durationMs,
                payload    |-> [toolName |-> "unknown", raw |-> Obj(EmptyMap)],
                result     |-> action.result]
  IN  IF ~HasEvent(state, action.id)
      THEN [byId |-> Put(state.byId, action.id, event),
            order |-> Append(state.order, action.id)]
      ELSE [byId |-> Put(state.byId, action.id,
                         Spread(state.byId[action.id],
                                [status |-> action.status,
                                 durationMs |-> action.durationMs,
                                 result |-> action.result])),
            order |-> state.order]

RegisterResultNoSynth(state, action, dateNow) ==
  IF ~HasEvent(state, action.id) THEN state
  ELSE [byId |-> Put(state.byId, action.id,
                     Spread(state.byId[action.id],
                            [status |-> action.status,
                             durationMs |-> action.durationMs,
                             result |-> Nullish(action.result,
                                                ResultOf(state.byId[action.id]))])),
        order |-> state.order]

RegisterResult(state, action, dateNow) ==
  LET existing == IF HasEvent(state, action.id) THEN state.byId[action.id]
                  ELSE Undefined
  IN  IF existing = Undefined
      THEN LET event == [id         |-> action.id,
                         toolName   |-> "unknown",
                         timestamp  |-> dateNow,
                         status     |-> action.status,
                         durationMs |-> action.durationMs,
                         payload    |-> [toolName |-> "unknown",
                                         raw |-> Obj(EmptyMap)],
                         result     |-> action.result]
           IN  [byId  |-> Put(state.byId, action.id, event),
                order |-> Append(state.order, action.id)]
      ELSE [byId  |-> Put(state.byId, action.id,
                          Spread(existing,
                                 [status     |-> action.status,
                                  durationMs |-> action.durationMs,
                                  result     |-> Nullish(action.result,
                                                         ResultOf(existing))])),
            order |-> state.order]

ResetKeepsOrder(state) == [byId |-> EmptyMap, order |-> state.order]

ResetCase(state) == initialEventState

eventReducer(state, action, dateNow) ==
  CASE action.type = "register-call"   -> RegisterCall(state, action)
    [] action.type = "register-result" -> RegisterResult(state, action, dateNow)
    [] action.type = "reset"           -> ResetCase(state)
    [] OTHER                           -> state

-----------------------------------------------------------------------------
(* The state after construction of the Chat component *)

NoAction == [type |-> "none", id |-> "", existed |-> FALSE]
NoFn == [op |-> "none"]

Init ==
  /\ eventState = initialEventState
  /\ lastAction = NoAction
  /\ messages = <<>>
  /\ status = "ready"
  /\ hasHydrated = FALSE
  /\ activeSessionId = "none"
  /\ seenCallsRef = {}
  /\ seenResultsRef = {}
  /\ callStartRef = EmptyMap
  /\ lastOp = "init"
  /\ dispatched = <<>>
  /\ fn = NoFn

-----------------------------------------------------------------------------
(* SpecStore: the reducer under arbitrary register-call / register-result / *)
(* reset actions                                                            *)

StoreIds == {"t1", "t2"}

\* the ToolEvent values a register-call action carries
CallEvents ==
  { [id |-> id, toolName |-> p.toolName, timestamp |-> 0,
     status |-> "running", payload |-> p] :
      id \in StoreIds,
      p \in { parseToolPayload("bash", Obj([command |-> Str("ls")])),
              parseToolPayload("browser", Obj([url |-> Str("x")])) } }

\* the (status, result) pairs a register-result action carries: `result` is a
\* ToolResult or undefined, `status` any ToolEventStatus a result may bring
StoreOutcomes ==
  { <<"success", parseToolResult(Str("ok"))>>,
    <<"aborted", parseToolResult(Str(ABORTED))>>,
    <<"success", Undefined>>,
    <<"error", Undefined>> }

\* (durationMs, Date.now()) of a register-result action
StoreTimes == { <<0, 0>>, <<MaxDuration, MaxClock>> }

ResultActions ==
  { [type |-> "register-result", id |-> id, status |-> o[1],
     durationMs |-> tm[1], result |-> o[2], at |-> tm[2]] :
      id \in StoreIds, o \in StoreOutcomes, tm \in StoreTimes }

CallActions == { [type |-> "register-call", event |-> e] : e \in CallEvents }

StoreRegisterCall ==
  \E a \in CallActions :
    /\ eventState' = eventReducer(eventState, a, 0)
    /\ lastAction' = [type |-> a.type, id |-> a.event.id,
                      existed |-> HasEvent(eventState, a.event.id)]
    /\ UNCHANGED <<chatVars, fn>>

StoreRegisterResult ==
  \E a \in ResultActions :
    /\ eventState' = eventReducer(eventState, a, a.at)
    /\ lastAction' = [type |-> a.type, id |-> a.id,
                      existed |-> HasEvent(eventState, a.id)]
    /\ UNCHANGED <<chatVars, fn>>

StoreReset ==
  /\ eventState' = eventReducer(eventState, [type |-> "reset"], 0)
  /\ lastAction' = [type |-> "reset", id |-> "",
                    existed |-> eventState.order # <<>>]
  /\ UNCHANGED <<chatVars, fn>>

NextStore == StoreRegisterCall \/ StoreRegisterResult \/ StoreReset

SpecStore == Init /\ [][NextStore]_vars

-----------------------------------------------------------------------------
(* src/app/page.tsx: the message history handed over by useChat *)

SessionIds == {"s1", "s2"}

\* the invocation ids of the stream
ChatIds == {"t1", "t2"}

toolNameOf(id) ==
  IF id = "t1" THEN "bash" ELSE IF id = "t2" THEN "browser" ELSE "computer"

argsOf(id) ==
  IF id = "t1" THEN Obj([command |-> Str("ls")])
  ELSE IF id = "t2" THEN Obj([url |-> Str("example.org")])
  ELSE Obj([action |-> Str("screenshot")])

\* the raw result values that arrive on the stream
ChatResults == { Str("file1\nfile2"), Str(ABORTED) }

TextPart == [type |-> "text"]

ToolPart(id, state, result) ==
  [type |-> "tool-invocation",
   toolInvocation |-> [toolCallId |-> id, toolName |-> toolNameOf(id),
                       state |-> state, args |-> argsOf(id), result |-> result]]

isToolInvocationPart(part) == part.type = "tool-invocation"

UserMessage == [role |-> "user", parts |-> <<TextPart>>]

\* the histories persisted under STORAGE_KEY that a session switch loads back:
\* a new session, and a finished one (one of its invocations has lost its id:
\* the empty toolCallId is the falsy one)
StoredHistories ==
  { <<>>,
    <<UserMessage,
      [role |-> "assistant",
       parts |-> <<ToolPart("", "result", Str("file1\nfile2")),
                   ToolPart("t1", "result", Str("file1\nfile2"))>>]>> }

IsOpen(part) == isToolInvocationPart(part) /\ part.toolInvocation.state = "call"

HasOpenPart(message) == \E i \in DOMAIN message.parts : IsOpen(message.parts[i])

LastIsAssistant ==
  messages # <<>> /\ messages[Len(messages)].role = "assistant"

\* messages with `part` added to the assistant message under construction
WithPart(part) ==
  IF LastIsAssistant
  THEN [messages EXCEPT ![Len(messages)].parts = Append(@, part)]
  ELSE Append(messages, [role |-> "assistant", parts |-> <<part>>])

RECURSIVE AssistantParts(_)
AssistantParts(msgs) ==
  IF msgs = <<>> THEN <<>>
  ELSE (IF Head(msgs).role = "assistant" THEN Head(msgs).parts ELSE <<>>)
       \o AssistantParts(Tail(msgs))

CanAddPart ==
  /\ Len(AssistantParts(messages)) < MaxParts
  /\ LastIsAssistant \/ Len(messages) < MaxMessages

-----------------------------------------------------------------------------
(* src/app/page.tsx: the scan effect *)

normalizeToolNameIdentity(toolName) == toolName

normalizeToolName(toolName) ==
  IF toolName = "computer" \/ toolName = "bash" THEN toolName ELSE "unknown"

MathMaxNoClamp(a, b) == b

MathMax(a, b) == IF a >= b THEN a ELSE b

StartedAtZero(callStart, id, dateNow) ==
  IF id \in DOMAIN callStart THEN callStart[id] ELSE 0

\* callStartRef.current[id] ?? Date.now()
StartedAt(callStart, id, dateNow) ==
  IF id \in DOMAIN callStart THEN callStart[id] ELSE dateNow

\* the scanner's working state: the store and the three refs, plus the log of
\* the actions dispatched so far
ScanState(store, seenCalls, seenResults, callStart) ==
  [store |-> store, seenCalls |-> seenCalls, seenResults |-> seenResults,
   callStart |-> callStart, out |-> <<>>]

Dispatch(sc, action, dateNow) ==
  [sc EXCEPT !.store = eventReducer(sc.store, action, dateNow),
             !.out = Append(sc.out, action)]

CallBranchNoDedup(sc, inv, dateNow) ==
  IF inv.state = "call"
  THEN Dispatch([sc EXCEPT !.seenCalls = sc.seenCalls \cup {inv.toolCallId},
                           !.callStart = Put(sc.callStart, inv.toolCallId, dateNow)],
                [type |-> "register-call",
                 event |-> [id        |-> inv.toolCallId,
                            toolName  |-> normalizeToolName(inv.toolName),
                            timestamp |-> dateNow,
                            status    |-> "running",
                            payload   |-> parseToolPayload(inv.toolName, inv.args)]],
                dateNow)
  ELSE sc

CallBranch(sc, inv, dateNow) ==
  IF inv.state = "call" /\ inv.toolCallId \notin sc.seenCalls
  THEN Dispatch([sc EXCEPT !.seenCalls = sc.seenCalls \cup {inv.toolCallId},
                           !.callStart = Put(sc.callStart, inv.toolCallId, dateNow)],
                [type |-> "register-call",
                 event |-> [id        |-> inv.toolCallId,
                            toolName  |-> normalizeToolName(inv.toolName),
                            timestamp |-> dateNow,
                            status    |-> "running",
                            payload   |-> parseToolPayload(inv.toolName, inv.args)]],
                dateNow)
  ELSE sc

ResultBranchNoDedup(sc, inv, dateNow, dateNowAfter) ==
  IF inv.state = "result"
  THEN LET startedAt    == StartedAt(sc.callStart, inv.toolCallId, dateNow)
           parsedResult == parseToolResult(inv.result)
       IN  Dispatch([sc EXCEPT !.seenResults = sc.seenResults \cup {inv.toolCallId}],
                    [type       |-> "register-result",
                     id         |-> inv.toolCallId,
                     status     |-> deriveStatusFromResult(parsedResult),
                     durationMs |-> MathMax(0, dateNowAfter - startedAt),
                     result     |-> parsedResult],
                    dateNow)
  ELSE sc

\* the result branch reads the clock twice: dateNow where it defaults the start
\* time, dateNowAfter where it computes the duration
ResultBranch(sc, inv, dateNow, dateNowAfter) ==
  IF inv.state = "result" /\ inv.toolCallId \notin sc.seenResults
  THEN LET startedAt    == StartedAt(sc.callStart, inv.toolCallId, dateNow)
           parsedResult == parseToolResult(inv.result)
           st           == deriveStatusFromResult(parsedResult)
       IN  Dispatch([sc EXCEPT !.seenResults = sc.seenResults \cup {inv.toolCallId}],
                    [type       |-> "register-result",
                     id         |-> inv.toolCallId,
                     status     |-> st,
                     durationMs |-> MathMax(0, dateNowAfter - startedAt),
                     result     |-> parsedResult],
                    dateNow)
  ELSE sc

ScanPartSkipsUnknown(sc, part, dateNow, dateNowAfter) ==
  IF ~isToolInvocationPart(part) THEN sc
  ELSE IF part.toolInvocation.toolCallId = "" THEN sc
  ELSE IF normalizeToolName(part.toolInvocation.toolName) = "unknown" THEN sc
  ELSE ResultBranch(CallBranch(sc, part.toolInvocation, dateNow),
                    part.toolInvocation, dateNow, dateNowAfter)

\* the body of the inner forEach
ScanPart(sc, part, dateNow, dateNowAfter) ==
  IF ~isToolInvocationPart(part) THEN sc
  ELSE IF part.toolInvocation.toolCallId = "" THEN sc
  ELSE ResultBranch(CallBranch(sc, part.toolInvocation, dateNow),
                    part.toolInvocation, dateNow, dateNowAfter)

RECURSIVE ScanParts(_, _, _, _)
ScanParts(sc, parts, dateNow, dateNowAfter) ==
  IF parts = <<>> THEN sc
  ELSE ScanParts(ScanPart(sc, Head(parts), dateNow, dateNowAfter), Tail(parts),
                 dateNow, dateNowAfter)

RECURSIVE ScanMessages(_, _, _, _)
ScanMessages(sc, msgs, dateNow, dateNowAfter) ==
  IF msgs = <<>> THEN sc
  ELSE ScanMessages(ScanParts(sc, Head(msgs).parts, dateNow, dateNowAfter),
                    Tail(msgs), dateNow, dateNowAfter)

ScanEffect(sc, msgs, hydrated, dateNow, dateNowAfter) ==
  IF ~hydrated THEN sc ELSE ScanMessages(sc, msgs, dateNow, dateNowAfter)

-----------------------------------------------------------------------------
(* src/app/page.tsx: the handlers and effects of the Chat component *)

ResetEffectKeepsStore ==
  /\ eventState' = eventState
  /\ seenCallsRef' = {}
  /\ seenResultsRef' = {}
  /\ callStartRef' = EmptyMap

ResetEffectKeepsSeenResults ==
  /\ eventState' = eventReducer(eventState, [type |-> "reset"], 0)
  /\ seenCallsRef' = {}
  /\ seenResultsRef' = seenResultsRef
  /\ callStartRef' = EmptyMap

ResetEffectKeepsSeenCalls ==
  /\ eventState' = eventReducer(eventState, [type |-> "reset"], 0)
  /\ seenCallsRef' = seenCallsRef
  /\ seenResultsRef' = {}
  /\ callStartRef' = EmptyMap

\* the reset effect: dispatch reset and replace the three refs; the reducer
\* applies the dispatched actions in dispatch order, so the store that the
\* actions of any later scan act on is the store after this reset
ResetEffect ==
  /\ eventState' = eventReducer(eventState, [type |-> "reset"], 0)
  /\ seenCallsRef' = {}
  /\ seenResultsRef' = {}
  /\ callStartRef' = EmptyMap

\* the hydration effect reads the stored sessions; the commit that follows
\* runs the reset effect
Hydrate ==
  /\ ~hasHydrated
  /\ hasHydrated' = TRUE
  /\ activeSessionId' \in SessionIds
  /\ messages' \in StoredHistories
  /\ ResetEffect
  /\ lastOp' = "reset"
  /\ dispatched' = <<>>
  /\ UNCHANGED <<status, lastAction, fn>>

\* setActiveSessionId (session button, createSession, deleteSession): the
\* message load effect hands the stored history to setMessages and the reset
\* effect runs in the same commit
SwitchSession ==
  /\ hasHydrated
  /\ activeSessionId' \in SessionIds \ {activeSessionId}
  /\ messages' \in StoredHistories
  /\ ResetEffect
  /\ lastOp' = IF seenCallsRef \cup seenResultsRef # {} THEN "switch" ELSE "reset"
  /\ dispatched' = <<>>
  /\ UNCHANGED <<hasHydrated, status, lastAction, fn>>

\* handleSubmit / append: the user message joins the history
Submit ==
  /\ hasHydrated
  /\ status = "ready"
  /\ Len(messages) < MaxMessages
  /\ messages' = Append(messages, UserMessage)
  /\ status' = "streaming"
  /\ lastOp' = "stream"
  /\ dispatched' = <<>>
  /\ UNCHANGED <<eventState, hasHydrated, activeSessionId, seenCallsRef,
                 seenResultsRef, callStartRef, lastAction, fn>>

\* the ids of the invocations of a history
RECURSIVE IdsOf(_)
IdsOf(parts) ==
  IF parts = <<>> THEN {}
  ELSE (IF isToolInvocationPart(Head(parts))
        THEN {Head(parts).toolInvocation.toolCallId} ELSE {})
       \cup IdsOf(Tail(parts))

\* a stream chunk adds a tool invocation in state `call`; the provider gives
\* every invocation an id of its own
StreamToolCall ==
  /\ status = "streaming"
  /\ CanAddPart
  /\ \E id \in ChatIds \ IdsOf(AssistantParts(messages)) :
       messages' = WithPart(ToolPart(id, "call", Undefined))
  /\ lastOp' = "stream"
  /\ dispatched' = <<>>
  /\ UNCHANGED <<eventState, status, hasHydrated, activeSessionId, seenCallsRef,
                 seenResultsRef, callStartRef, lastAction, fn>>

\* a stream chunk adds text; the model writes text only once no call is open
StreamText ==
  /\ status = "streaming"
  /\ CanAddPart
  /\ LastIsAssistant => ~HasOpenPart(messages[Len(messages)])
  /\ messages' = WithPart(TextPart)
  /\ lastOp' = "stream"
  /\ dispatched' = <<>>
  /\ UNCHANGED <<eventState, status, hasHydrated, activeSessionId, seenCallsRef,
                 seenResultsRef, callStartRef, lastAction, fn>>

\* a stream chunk turns an open invocation of the last message into a result
StreamToolResult ==
  /\ status = "streaming"
  /\ LastIsAssistant
  /\ \E i \in DOMAIN messages[Len(messages)].parts, r \in ChatResults :
       /\ IsOpen(messages[Len(messages)].parts[i])
       /\ messages' =
            [messages EXCEPT ![Len(messages)].parts[i].toolInvocation =
               [@ EXCEPT !.state = "result", !.result = r]]
  /\ lastOp' = "stream"
  /\ dispatched' = <<>>
  /\ UNCHANGED <<eventState, status, hasHydrated, activeSessionId, seenCallsRef,
                 seenResultsRef, callStartRef, lastAction, fn>>

\* the response ends once every invocation of the last message has its result
Finish ==
  /\ status = "streaming"
  /\ LastIsAssistant
  /\ ~HasOpenPart(messages[Len(messages)])
  /\ status' = "ready"
  /\ lastOp' = "stream"
  /\ dispatched' = <<>>
  /\ UNCHANGED <<eventState, messages, hasHydrated, activeSessionId, seenCallsRef,
                 seenResultsRef, callStartRef, lastAction, fn>>

\* what stop() makes of the history
StopPatchOnlyOpen(msgs) ==
  IF msgs = <<>> THEN msgs
  ELSE LET lastMessage == msgs[Len(msgs)]
           n == Len(lastMessage.parts)
       IN  IF lastMessage.role = "assistant" /\ n > 0
              /\ IsOpen(lastMessage.parts[n])
           THEN [msgs EXCEPT ![Len(msgs)].parts[n].toolInvocation =
                   [@ EXCEPT !.state = "result", !.result = Str(ABORTED)]]
           ELSE msgs

StopPatch(msgs) ==
  IF msgs = <<>> THEN msgs
  ELSE LET lastMessage == msgs[Len(msgs)]
           n == Len(lastMessage.parts)
       IN  IF lastMessage.role = "assistant" /\ n > 0
              /\ lastMessage.parts[n].type = "tool-invocation"
           THEN [msgs EXCEPT ![Len(msgs)].parts[n].toolInvocation =
                   [@ EXCEPT !.state = "result", !.result = Str(ABORTED)]]
           ELSE msgs

\* stop(): the stop control is shown while the chat is loading
Stop ==
  /\ status # "ready"
  /\ status' = "ready"
  /\ messages' = StopPatch(messages)
  /\ lastOp' = "stop"
  /\ dispatched' = <<>>
  /\ UNCHANGED <<eventState, hasHydrated, activeSessionId, seenCallsRef,
                 seenResultsRef, callStartRef, lastAction, fn>>

\* the scan effect over the whole history; dateNow and dateNowAfter are what
\* Date.now() reads (the wall clock may have moved forwards or backwards since
\* the last scan and between the two reads of the result branch; a scan is
\* short, so its parts read the same two values); lastOp tells the first scan
\* of a history from a rescan of it and from the scans that follow a stop or a
\* switch
\* the history holds an invocation in `state` that the scanner has yet to
\* register: its branch of the scan fires
Pending(state, seen) ==
  \E m \in DOMAIN messages : \E p \in DOMAIN messages[m].parts :
    LET part == messages[m].parts[p] IN
    /\ isToolInvocationPart(part)
    /\ part.toolInvocation.toolCallId # ""
    /\ part.toolInvocation.state = state
    /\ part.toolInvocation.toolCallId \notin seen

\* what the reads of Date.now() of one scan can yield: the call branch reads
\* the clock once, the result branch twice, and a scan that fires no branch
\* does not read it
FirstReads ==
  IF Pending("call", seenCallsRef) \/ Pending("result", seenResultsRef)
  THEN Clock ELSE {0}

SecondReads(dateNow) ==
  IF Pending("result", seenResultsRef) THEN Clock ELSE {dateNow}

Scan ==
  \E dateNow \in FirstReads : \E dateNowAfter \in SecondReads(dateNow) :
    LET sc == ScanEffect(ScanState(eventState, seenCallsRef, seenResultsRef,
                                   callStartRef),
                         messages, hasHydrated, dateNow, dateNowAfter)
    IN  /\ eventState' = sc.store
        /\ seenCallsRef' = sc.seenCalls
        /\ seenResultsRef' = sc.seenResults
        /\ callStartRef' = sc.callStart
        /\ dispatched' = sc.out
        /\ lastOp' = CASE lastOp \in {"scan", "rescan", "stopscan", "switchscan"}
                              -> "rescan"
                       [] lastOp = "stop" -> "stopscan"
                       [] lastOp = "switch" -> "switchscan"
                       [] OTHER -> "scan"
        /\ UNCHANGED <<messages, status, hasHydrated, activeSessionId,
                       lastAction, fn>>

Next ==
  \/ Hydrate
  \/ SwitchSession
  \/ Submit
  \/ StreamToolCall
  \/ StreamText
  \/ StreamToolResult
  \/ Finish
  \/ Stop
  \/ Scan

Spec == Init /\ [][Next]_vars

-----------------------------------------------------------------------------
(* SpecFn: the classifier and the normalizer applied to untyped inputs *)

\* structured raw results: every choice of discriminant, `text` and `data`
FieldChoices(name, values) ==
  { EmptyMap } \cup { [k \in {name} |-> v] : v \in values }

Merge(f, g) ==
  [k \in DOMAIN f \cup DOMAIN g |-> IF k \in DOMAIN f THEN f[k] ELSE g[k]]

RawObjects ==
  { Obj(Merge(ty, Merge(tx, da))) :
      ty \in FieldChoices("type", {Str("text"), Str("image"), Str("error")}),
      tx \in FieldChoices("text", {Str(ABORTED), Str("hello"), Num(7)}),
      da \in FieldChoices("data", {Str("abc123"), Num(7)}) }

RawStrings ==
  { Str(ABORTED), Str(""), Str("file1\nfile2"), Str("User aborted "),
    Str("user aborted") }

RawResults ==
  RawObjects \cup RawStrings
    \cup { Undefined, Null, Num(7), NaN, Arr(<<>>), Arr(<<Str(ABORTED)>>) }

\* raw tool names and arguments
RawToolNames == { "bash", "computer", "browser", "" }

RawArgs ==
  { Undefined, Null, Str("ls"), Num(7), Arr(<<Num(10), Num(20)>>),
    Obj(EmptyMap),
    Obj([command |-> Str("ls")]),
    Obj([command |-> Num(7)]),
    Obj([command |-> Str("")]),
    Obj([action |-> Str("left_click"),
         coordinate |-> Arr(<<Num(10), Num(20)>>)]),
    Obj([action |-> Str("scroll"), scroll_direction |-> Str("down"),
         scroll_amount |-> Num(7)]),
    Obj([action |-> Str("scroll"), scroll_direction |-> Str("sideways"),
         scroll_amount |-> NaN]),
    Obj([action |-> Str("fly"), coordinate |-> Arr(<<Num(10)>>)]),
    Obj([action |-> Num(7), text |-> Str("hello"), duration |-> Num(7)]),
    Obj([action |-> Str("type"), text |-> Num(7), duration |-> Str("7")]),
    Obj([action |-> Str("wait"), duration |-> NaN,
         coordinate |-> Arr(<<Str("10"), Num(20)>>)]),
    Obj([action |-> Str("left_click"),
         coordinate |-> Arr(<<Num(10), Num(20), Num(30)>>)]),
    Obj([url |-> Str("example.org")]) }

\* the functions keep no state: each application starts from the state after
\* construction
FnClassify ==
  \E raw \in RawResults :
    /\ fn = NoFn
    /\ fn' = [op     |-> "parseToolResult",
              raw    |-> raw,
              result |-> parseToolResult(raw),
              status |-> deriveStatusFromResult(parseToolResult(raw))]
    /\ UNCHANGED <<storeVars, chatVars>>

FnNormalize ==
  \E toolName \in RawToolNames, args \in RawArgs :
    /\ fn = NoFn
    /\ fn' = [op       |-> "parseToolPayload",
              toolName |-> toolName,
              args     |-> args,
              payload  |-> parseToolPayload(toolName, args),
              name     |-> normalizeToolName(toolName)]
    /\ UNCHANGED <<storeVars, chatVars>>

\* a tool-invocation part with untyped tool name, arguments and result
RawPart(id, toolName, state, args, result) ==
  [type |-> "tool-invocation",
   toolInvocation |-> [toolCallId |-> id, toolName |-> toolName,
                       state |-> state, args |-> args, result |-> result]]

\* the occurrences of the invocation t3 that the stream may deliver: a call of
\* any tool name with any arguments, a result of any value
RawOccurrences ==
  { RawPart("t3", toolName, "call", args, Undefined) :
      toolName \in RawToolNames, args \in RawArgs }
    \cup { RawPart("t3", toolName, "result", Obj(EmptyMap), raw) :
             toolName \in {"bash", "browser"}, raw \in RawResults }

\* the well-formed occurrences of a history: an open bash call and a finished
\* computer action
WellFormedParts ==
  << RawPart("t1", "bash", "call", Obj([command |-> Str("ls")]), Undefined),
     RawPart("t2", "computer", "result", Obj([action |-> Str("screenshot")]),
             Obj([type |-> Str("image"), data |-> Str("abc123")])) >>

InsertAt(seq, k, x) == SubSeq(seq, 1, k - 1) \o <<x>> \o SubSeq(seq, k, Len(seq))

\* a history of a user message and an assistant message with these parts
HistoryOf(parts) == <<UserMessage, [role |-> "assistant", parts |-> parts]>>

\* the first scan of a context over a history that holds the occurrence `part`
\* at position k among the well-formed ones, next to the scan of the history
\* without it
FnScan ==
  \E part \in RawOccurrences, k \in 1 .. Len(WellFormedParts) + 1,
     dateNow \in Clock, dateNowAfter \in Clock :
    LET fresh == ScanState(initialEventState, {}, {}, EmptyMap)
    IN  /\ fn = NoFn
        /\ fn' = [op       |-> "scan",
                  part     |-> part,
                  position |-> k,
                  with     |-> ScanEffect(fresh,
                                          HistoryOf(InsertAt(WellFormedParts, k, part)),
                                          TRUE, dateNow, dateNowAfter),
                  without  |-> ScanEffect(fresh, HistoryOf(WellFormedParts),
                                          TRUE, dateNow, dateNowAfter)]
        /\ UNCHANGED <<storeVars, chatVars>>

NextFn == FnClassify \/ FnNormalize \/ FnScan

SpecFn == Init /\ [][NextFn]_vars

-----------------------------------------------------------------------------
(* Helpers of the properties *)

NoDuplicates(seq) == \A i, j \in DOMAIN seq : seq[i] = seq[j] => i = j

Range(seq) == { seq[i] : i \in DOMAIN seq }

IsPrefix(s, t) == Len(s) <= Len(t) /\ SubSeq(t, 1, Len(s)) = s

-----------------------------------------------------------------------------
(* C1: in every state reachable by register-call, register-result and reset *)
(* actions, `order` holds no id twice and every id of `order` is a key of   *)
(* `byId`.                                                                  *)
C1_OrderUniqueAndKeyed ==
  /\ NoDuplicates(eventState.order)
  /\ Range(eventState.order) \subseteq DOMAIN eventState.byId

\* a store with two events, the second of them updated by a later result
C1_Witness ==
  /\ Len(eventState.order) = 2
  /\ lastAction.type = "register-result"
  /\ lastAction.existed

(* C2: register-call is idempotent: dispatching it twice with one event id  *)
(* gives the store that dispatching it once gives, and register-call for an *)
(* id already in `byId` (from a call or synthesized by a result) returns    *)
(* the state unchanged.                                                     *)
C2_RegisterCallIdempotent ==
  \A a \in CallActions :
    LET once == eventReducer(eventState, a, 0) IN
    /\ \A b \in CallActions :
         b.event.id = a.event.id => eventReducer(once, b, 0) = once
    /\ HasEvent(eventState, a.event.id) => once = eventState

\* a register-call was dispatched for an id whose event a result synthesized
C2_Witness ==
  /\ lastAction.type = "register-call"
  /\ lastAction.existed
  /\ eventState.byId[lastAction.id].toolName = "unknown"
  /\ eventState.byId[lastAction.id].payload.raw = Obj(EmptyMap)
  /\ "durationMs" \in DOMAIN eventState.byId[lastAction.id]

(* C3: under register-call / register-result actions (no reset) `order` is  *)
(* append-only in first-seen order: the old `order` is a prefix of the new  *)
(* one, an id is appended exactly by the first action that mentions it, and *)
(* no event is removed.                                                     *)
C3_OrderAppendOnly ==
  [][ lastAction'.type \in {"register-call", "register-result"} =>
        /\ IsPrefix(eventState.order, eventState'.order)
        /\ DOMAIN eventState.byId \subseteq DOMAIN eventState'.byId
        /\ IF HasEvent(eventState, lastAction'.id)
           THEN eventState'.order = eventState.order
           ELSE eventState'.order = Append(eventState.order, lastAction'.id)
    ]_vars

\* the second id was first mentioned by a result, after the first id's call
C3_Witness ==
  /\ Len(eventState.order) = 2
  /\ lastAction.type = "register-result"
  /\ ~lastAction.existed
  /\ eventState.order[2] = lastAction.id
  /\ "durationMs" \notin DOMAIN eventState.byId[eventState.order[1]]

(* C7: from any reachable store state, reset yields exactly the empty       *)
(* initial state.                                                           *)
C7_ResetYieldsInitial ==
  [][ lastAction'.type = "reset" =>
        eventState' = [byId |-> EmptyMap, order |-> <<>>] ]_vars

\* a reset has just emptied a store that held events
C7_Witness ==
  /\ lastAction.type = "reset"
  /\ lastAction.existed
  /\ eventState.order = <<>>
  /\ DOMAIN eventState.byId = {}

-----------------------------------------------------------------------------
(* Helpers of the scanner properties *)

Terminal == {"success", "aborted", "error"}

ScanOps == {"scan", "rescan", "stopscan", "switchscan"}

ResetOps == {"reset", "switch"}

RECURSIVE AllParts(_)
AllParts(msgs) ==
  IF msgs = <<>> THEN <<>> ELSE Head(msgs).parts \o AllParts(Tail(msgs))

\* the occurrences of id in the history that carry the state tag `state`
Occurrences(msgs, id, state) ==
  SelectSeq(AllParts(msgs),
            LAMBDA p : /\ isToolInvocationPart(p)
                       /\ p.toolInvocation.toolCallId = id
                       /\ p.toolInvocation.state = state)

HasOccurrence(msgs, id, state) == Occurrences(msgs, id, state) # <<>>

FirstResultValue(msgs, id) ==
  Occurrences(msgs, id, "result")[1].toolInvocation.result

DispatchedFor(log, id) ==
  SelectSeq(log, LAMBDA a : IF a.type = "register-call" THEN a.event.id = id
                            ELSE a.id = id)

Count(seq, x) == Cardinality({ i \in DOMAIN seq : seq[i] = x })

\* the scanner's refs and store as it finds them
CurrentScanState ==
  ScanState(eventState, seenCallsRef, seenResultsRef, callStartRef)

\* one more occurrence of id: a call, or a result with any value
ExtraOccurrences(id) ==
  { ToolPart(id, "call", Undefined) }
    \cup { ToolPart(id, "result", r) : r \in ChatResults \cup {Str(ABORTED)} }

(* C4: within one conversation context an event created from a call starts *)
(* in `running`, its status changes exactly once, to a terminal status, at  *)
(* the first scan that observes a result occurrence of its id, and nothing  *)
(* changes it afterwards: no scan, rescan, duplicate call occurrence or     *)
(* changed result value.                                                    *)
C4_StatusChangesOnce ==
  [][ lastOp' \notin ResetOps =>
        /\ \A id \in DOMAIN eventState.byId :
             LET old == eventState.byId[id]
                 new == eventState'.byId[id]
             IN  /\ id \in DOMAIN eventState'.byId
                 /\ old.status # "running" => new.status = old.status
                 /\ (old.status = "running" /\ new.status # "running") =>
                      /\ new.status \in Terminal
                      /\ lastOp' \in ScanOps
                      /\ id \notin seenResultsRef /\ id \in seenResultsRef'
                 /\ ( /\ old.status = "running"
                      /\ lastOp' \in ScanOps
                      /\ HasOccurrence(messages, id, "result") ) =>
                      new.status \in Terminal
                 /\ \A part \in ExtraOccurrences(id), t \in Clock :
                      ( /\ lastOp' \in ScanOps
                        /\ \/ old.status \in Terminal
                           \/ part.toolInvocation.state = "call" ) =>
                        ScanPart(CurrentScanState, part, t, t).store.byId[id].status
                          = old.status
        /\ \A id \in DOMAIN eventState'.byId \ DOMAIN eventState.byId :
             LET log == DispatchedFor(dispatched', id)
             IN  /\ log # <<>>
                 /\ log[1].type = "register-call" =>
                      /\ log[1].event.status = "running"
                      /\ eventState'.byId[id].status = "running" \/ Len(log) = 2
    ]_vars

\* the stop that followed the first scan of a result rewrote that result to the
\* abort marker, and the scan after the stop left the event `success`
C4_Witness ==
  /\ lastOp = "stopscan"
  /\ \E id \in DOMAIN eventState.byId :
       /\ id \in seenCallsRef
       /\ eventState.byId[id].status = "success"
       /\ HasOccurrence(messages, id, "result")
       /\ FirstResultValue(messages, id) = Str(ABORTED)

(* C5: a rescan of an unchanged history dispatches nothing and leaves the   *)
(* Event Store, both dedup sets and the start-time map unchanged.           *)
C5_RescanIsNoOp ==
  [][ lastOp' = "rescan" =>
        /\ dispatched' = <<>>
        /\ UNCHANGED <<eventState, seenCallsRef, seenResultsRef, callStartRef>>
    ]_vars

\* a history with an open call and a finished one has been scanned twice
C5_Witness ==
  /\ lastOp = "rescan"
  /\ seenResultsRef # {}
  /\ seenCallsRef \ seenResultsRef # {}
  /\ \E id \in seenCallsRef : HasOccurrence(messages, id, "call")

(* C6: after a stop and the scan that follows it no event is left in status *)
(* `running`.                                                               *)
C6_NoRunningAfterStop ==
  lastOp = "stopscan" =>
    \A id \in DOMAIN eventState.byId : eventState.byId[id].status # "running"

(* C8: call then result: the scan that first sees id in state `call` (tool  *)
(* bash, args {command: c}) registers one `running` event with payload      *)
(* {toolName: bash, command: c}; the later scan that first sees id in state *)
(* `result` with a non-sentinel string r turns that event to `success` with *)
(* result {type: text, text: r} and durationMs >= 0.                        *)
C8_CallThenResult ==
  [][ lastOp' \in ScanOps =>
        \A id \in ChatIds :
          toolNameOf(id) = "bash" =>
            LET payload == [toolName |-> "bash",
                            command |-> Prop(argsOf(id), "command")]
            IN
            /\ ( /\ id \notin seenCallsRef \cup seenResultsRef
                 /\ HasOccurrence(messages, id, "call")
                 /\ ~HasOccurrence(messages, id, "result") ) =>
                 /\ id \in DOMAIN eventState'.byId
                 /\ eventState'.byId[id].status = "running"
                 /\ eventState'.byId[id].payload = payload
                 /\ Count(eventState'.order, id) = 1
            /\ ( /\ id \in seenCallsRef \ seenResultsRef
                 /\ HasOccurrence(messages, id, "result")
                 /\ FirstResultValue(messages, id).t = "string"
                 /\ FirstResultValue(messages, id) # Str(ABORTED) ) =>
                 /\ eventState.byId[id].status = "running"
                 /\ eventState'.byId[id].status = "success"
                 /\ eventState'.byId[id].payload = payload
                 /\ eventState'.byId[id].toolName = "bash"
                 /\ eventState'.byId[id].result =
                      [type |-> "text", text |-> FirstResultValue(messages, id)]
                 /\ eventState'.byId[id].durationMs >= 0
                 /\ Count(eventState'.order, id) = 1
    ]_vars

\* t1 was seen as a call, then as a result, and is now a finished bash event
C8_Witness ==
  /\ lastOp \in ScanOps
  /\ "t1" \in seenCallsRef \cap seenResultsRef
  /\ eventState.byId["t1"].status = "success"
  /\ eventState.byId["t1"].payload = [toolName |-> "bash", command |-> Str("ls")]
  /\ eventState.byId["t1"].result = [type |-> "text", text |-> Str("file1\nfile2")]
  /\ eventState.byId["t1"].durationMs > 0

(* C9: a result value equal to the abort sentinel classifies as             *)
(* {type: aborted, text: sentinel} with status `aborted`, and the event of  *)
(* that id ends `aborted`; any other non-empty string gives `success` with  *)
(* a `text` result carrying the string.                                     *)
C9_SentinelString ==
  [][ lastOp' \in ScanOps =>
        /\ \A raw \in RawStrings :
             IF raw = Str(ABORTED)
             THEN /\ parseToolResult(raw) = [type |-> "aborted", text |-> raw]
                  /\ deriveStatusFromResult(parseToolResult(raw)) = "aborted"
             ELSE raw.s # "" =>
                  /\ parseToolResult(raw) = [type |-> "text", text |-> raw]
                  /\ deriveStatusFromResult(parseToolResult(raw)) = "success"
        /\ \A id \in ChatIds :
             ( id \notin seenResultsRef /\ HasOccurrence(messages, id, "result")
               /\ FirstResultValue(messages, id).t = "string"
               /\ FirstResultValue(messages, id).s # "" ) =>
               LET raw == FirstResultValue(messages, id)
                   ev  == eventState'.byId[id]
               IN  IF raw = Str(ABORTED)
                   THEN /\ ev.status = "aborted"
                        /\ ev.result = [type |-> "aborted", text |-> Str(ABORTED)]
                   ELSE /\ ev.status = "success"
                        /\ ev.result = [type |-> "text", text |-> raw]
    ]_vars

\* a scan has registered an aborted event next to a successful one
C9_Witness ==
  /\ lastOp \in ScanOps
  /\ \E id \in DOMAIN eventState.byId :
       /\ eventState.byId[id].status = "aborted"
       /\ eventState.byId[id].result = [type |-> "aborted", text |-> Str(ABORTED)]
  /\ \E id \in DOMAIN eventState.byId :
       /\ eventState.byId[id].status = "success"
       /\ ResultOf(eventState.byId[id]) # Undefined
       /\ eventState.byId[id].result.type = "text"

(* C10 as claimed: the sentinel as the whole text payload (the top-level    *)
(* string, or the `text` field of a structured object) classifies as        *)
(* `aborted` whatever the object's other fields and discriminant.           *)
C10_SentinelAnyShape ==
  ( /\ fn.op = "parseToolResult"
    /\ \/ fn.raw = Str(ABORTED)
       \/ fn.raw.t = "object" /\ Prop(fn.raw, "text") = Str(ABORTED) ) =>
    /\ fn.result # Undefined
    /\ fn.result.type = "aborted"
    /\ fn.status = "aborted"

(* C10 amended: the sentinel as the top-level string, or as the `text`      *)
(* field of a structured object whose discriminant is `text`, classifies as *)
(* `aborted` whatever the object's other fields.                            *)
C10_SentinelTextShape ==
  ( /\ fn.op = "parseToolResult"
    /\ \/ fn.raw = Str(ABORTED)
       \/ /\ fn.raw.t = "object"
          /\ Prop(fn.raw, "text") = Str(ABORTED)
          /\ Prop(fn.raw, "type") = Str("text") ) =>
    /\ fn.result = [type |-> "aborted", text |-> Str(ABORTED)]
    /\ fn.status = "aborted"

\* a `text` object that also carries a `data` field classified as aborted
C10_Witness ==
  /\ fn.op = "parseToolResult"
  /\ fn.raw.t = "object"
  /\ Prop(fn.raw, "type") = Str("text")
  /\ Prop(fn.raw, "text") = Str(ABORTED)
  /\ Prop(fn.raw, "data") # Undefined
  /\ fn.result.type = "aborted"

-----------------------------------------------------------------------------
(* Classifier and normalizer contracts *)

(* C11: for an absent (null / undefined) or empty raw result the classifier *)
(* produces no ToolResult and the derived status is `success`.              *)
C11_AbsentOrEmptyNoResult ==
  ( fn.op = "parseToolResult" /\ fn.raw \in {Undefined, Null, Str("")} ) =>
    /\ fn.result = Undefined
    /\ fn.status = "success"

\* the derivation over every classified raw result
StatusDerivedFromType ==
  \A raw \in RawResults :
    LET result == parseToolResult(raw) IN
    deriveStatusFromResult(result) =
      IF result # Undefined /\ result.type = "aborted" THEN "aborted"
      ELSE "success"

(* C12: the status derived from a classified result is `aborted` exactly    *)
(* when the result's type is `aborted` and `success` otherwise; hence no    *)
(* event that the scanner put into the store has status `error`, and an     *)
(* event has status `aborted` only if its result has type `aborted`.        *)
C12_StatusFromResult ==
  /\ StatusDerivedFromType
  /\ \A id \in DOMAIN eventState.byId :
       LET event == eventState.byId[id] IN
       /\ event.status # "error"
       /\ event.status \in {"running", "success", "aborted"}
       /\ event.status = "aborted" =>
            /\ ResultOf(event) # Undefined
            /\ event.result.type = "aborted"
       /\ event.status = "success" =>
            \/ ResultOf(event) = Undefined
            \/ event.result.type # "aborted"

\* the scan after a stop turned a registered call into an `aborted` event,
\* next to an event that ended `success`
C12_Witness ==
  /\ lastOp = "stopscan"
  /\ \E id \in seenCallsRef :
       /\ eventState.byId[id].status = "aborted"
       /\ eventState.byId[id].result.type = "aborted"
       /\ eventState.byId[id].payload.toolName # "unknown"
  /\ \E id \in DOMAIN eventState.byId : eventState.byId[id].status = "success"

(* C13 as claimed: for an unrecognized tool-kind label and any arguments    *)
(* value (record, string, number, array, null) the normalizer returns the   *)
(* `unknown` variant with the arguments value itself under `raw`.           *)
C13_UnknownKeepsArgs ==
  ( /\ fn.op = "parseToolPayload"
    /\ fn.toolName \notin {"bash", "computer"}
    /\ fn.args.t \in {"object", "string", "number", "array", "null"} ) =>
    fn.payload = [toolName |-> "unknown", raw |-> fn.args]

(* C13 amended: for an unrecognized tool-kind label the normalizer returns  *)
(* the `unknown` variant; `raw` is the arguments value itself when it is a  *)
(* record (a non-null, non-array object) and the empty record for any other *)
(* arguments value (string, number, array, null, undefined).                *)
C13_UnknownKeepsRecord ==
  ( fn.op = "parseToolPayload" /\ fn.toolName \notin {"bash", "computer"} ) =>
    /\ fn.name = "unknown"
    /\ fn.payload =
         [toolName |-> "unknown",
          raw |-> IF fn.args.t = "object" THEN fn.args ELSE Obj(EmptyMap)]

\* an unrecognized tool was normalized with a two-element array as arguments
C13_Witness ==
  /\ fn.op = "parseToolPayload"
  /\ fn.toolName = "browser"
  /\ fn.args.t = "array"
  /\ fn.payload.toolName = "unknown"
  /\ fn.payload.raw = Obj(EmptyMap)

(* C14: for tool-kind `computer` and any arguments the payload's `action`   *)
(* is one of the ten ComputerAction names and `scroll_direction` is absent  *)
(* or one of up, down, left, right, also when the arguments carry some      *)
(* other string in those fields.                                            *)
C14_ComputerClosedShape ==
  ( fn.op = "parseToolPayload" /\ fn.toolName = "computer" ) =>
    /\ fn.payload.toolName = "computer"
    /\ fn.payload.action.t = "string"
    /\ fn.payload.action.s \in ComputerActions
    /\ \/ fn.payload.scroll_direction = Undefined
       \/ /\ fn.payload.scroll_direction.t = "string"
          /\ fn.payload.scroll_direction.s \in ScrollDirections

(* C15: for tool-kind `bash` the normalizer returns {toolName: bash,        *)
(* command: c}, c being the arguments' `command` when the arguments are a   *)
(* record whose `command` is a string, and the empty string in every other  *)
(* case (missing command, non-string command, non-record arguments).        *)
C15_BashCommand ==
  ( fn.op = "parseToolPayload" /\ fn.toolName = "bash" ) =>
    LET isRecord == fn.args.t = "object"
        hasCommand == isRecord /\ "command" \in DOMAIN fn.args.f
                               /\ fn.args.f["command"].t = "string"
    IN  /\ DOMAIN fn.payload = {"toolName", "command"}
        /\ fn.payload.toolName = "bash"
        /\ fn.payload.command = IF hasCommand THEN fn.args.f["command"]
                                ELSE Str("")
        /\ fn.name = "bash"

\* a bash call whose `command` is a number was normalized to the empty command
C15_Witness ==
  /\ fn.op = "parseToolPayload"
  /\ fn.toolName = "bash"
  /\ fn.args.t = "object"
  /\ Prop(fn.args, "command").t = "number"
  /\ fn.payload = [toolName |-> "bash", command |-> Str("")]

-----------------------------------------------------------------------------
(* Reducer contracts of register-result *)

(* C16: register-result for an id that already has an event changes only    *)
(* that event's status, durationMs and result: result is replaced when the  *)
(* action carries one and retained when it does not; the event's id,        *)
(* toolName, timestamp and payload, every other event of `byId`, and        *)
(* `order` are unchanged.                                                   *)
C16_ResultUpdatesInPlace ==
  \A a \in ResultActions :
    HasEvent(eventState, a.id) =>
      LET old  == eventState.byId[a.id]
          next == eventReducer(eventState, a, a.at)
          new  == next.byId[a.id]
      IN  /\ next.order = eventState.order
          /\ DOMAIN next.byId = DOMAIN eventState.byId
          /\ \A other \in DOMAIN eventState.byId \ {a.id} :
               next.byId[other] = eventState.byId[other]
          /\ DOMAIN new = DOMAIN old \cup {"status", "durationMs", "result"}
          /\ new.id = old.id
          /\ new.toolName = old.toolName
          /\ new.timestamp = old.timestamp
          /\ new.payload = old.payload
          /\ new.status = a.status
          /\ new.durationMs = a.durationMs
          /\ new.result = IF a.result # Undefined THEN a.result ELSE ResultOf(old)

\* a result without payload has updated a bash event that had a result: the
\* event is `error` now and still carries the earlier result
C16_Witness ==
  /\ lastAction.type = "register-result"
  /\ lastAction.existed
  /\ Len(eventState.order) = 2
  /\ LET event == eventState.byId[lastAction.id]
     IN  /\ event.toolName = "bash"
         /\ event.status = "error"
         /\ event.result = [type |-> "text", text |-> Str("ok")]

(* C17: register-result for an id with no event in the store synthesizes    *)
(* exactly one new event with that id, toolName `unknown`, payload          *)
(* {toolName: unknown, raw: {}} and the action's status, durationMs and     *)
(* result, appends the id to the end of `order` and leaves all existing     *)
(* events unchanged.                                                        *)
C17_ResultSynthesizesEvent ==
  \A a \in ResultActions :
    ~HasEvent(eventState, a.id) =>
      LET next == eventReducer(eventState, a, a.at)
      IN  /\ DOMAIN next.byId = DOMAIN eventState.byId \cup {a.id}
          /\ next.order = Append(eventState.order, a.id)
          /\ Count(next.order, a.id) = 1
          /\ \A other \in DOMAIN eventState.byId :
               next.byId[other] = eventState.byId[other]
          /\ next.byId[a.id].id = a.id
          /\ next.byId[a.id].toolName = "unknown"
          /\ next.byId[a.id].payload =
               [toolName |-> "unknown", raw |-> Obj(EmptyMap)]
          /\ next.byId[a.id].status = a.status
          /\ next.byId[a.id].durationMs = a.durationMs
          /\ next.byId[a.id].result = a.result

\* an aborted result for an id without event was registered behind a running
\* bash call
C17_Witness ==
  /\ lastAction.type = "register-result"
  /\ ~lastAction.existed
  /\ Len(eventState.order) = 2
  /\ eventState.order[2] = lastAction.id
  /\ eventState.byId[eventState.order[1]].status = "running"
  /\ eventState.byId[eventState.order[1]].toolName = "bash"
  /\ LET event == eventState.byId[lastAction.id]
     IN  /\ event.toolName = "unknown"
         /\ event.payload = [toolName |-> "unknown", raw |-> Obj(EmptyMap)]
         /\ event.status = "aborted"
         /\ event.result = [type |-> "aborted", text |-> Str(ABORTED)]

-----------------------------------------------------------------------------
(* Scanner contracts: delivery order, context switch, stop *)

\* an occurrence of id in state `call`, and one in state `result` with value r
CallOccurrence(id) == ToolPart(id, "call", Undefined)

ResultOccurrence(id, r) == ToolPart(id, "result", r)

\* the scanner sees the call occurrence of id first and its result occurrence
\* next, or the other way round
CallFirst(id, r, t) ==
  ScanPart(ScanPart(CurrentScanState, CallOccurrence(id), t, t),
           ResultOccurrence(id, r), t, t).store

ResultFirst(id, r, t) ==
  ScanPart(ScanPart(CurrentScanState, ResultOccurrence(id, r), t, t),
           CallOccurrence(id), t, t).store

PositionOf(store, id) == { i \in DOMAIN store.order : store.order[i] = id }

\* the final event without timestamp and durationMs
FinalEvent(store, id) ==
  [status   |-> store.byId[id].status,
   payload  |-> store.byId[id].payload,
   result   |-> ResultOf(store.byId[id]),
   position |-> PositionOf(store, id)]

\* the result values of the two delivery orders
OrderResults ==
  ChatResults \cup { Undefined, Obj([type |-> Str("image"), data |-> Str("abc123")]) }

(* C18 as claimed: for an id whose call and result occurrences are both     *)
(* delivered in one conversation context, the final event (status, payload, *)
(* result, position in `order`) is the same whether the call occurrence is  *)
(* scanned before the result occurrence or after it.                        *)
C18_OrderIndependent ==
  hasHydrated =>
    \A id \in ChatIds, r \in OrderResults, t \in Clock :
      id \notin seenCallsRef \cup seenResultsRef \cup DOMAIN eventState.byId =>
        LET callStore   == CallFirst(id, r, t)
            resultStore == ResultFirst(id, r, t)
        IN  /\ id \in DOMAIN callStore.byId
            /\ id \in DOMAIN resultStore.byId
            /\ FinalEvent(callStore, id) = FinalEvent(resultStore, id)

(* C18 amended: the final event's status, result and position in `order`    *)
(* are the same in both scan orders; its payload (and toolName) is the      *)
(* normalized payload of the call only when the call occurrence is scanned  *)
(* first, and the `unknown` payload {raw: {}} when the result occurrence is *)
(* scanned first.                                                           *)
C18_OrderIndependentButPayload ==
  hasHydrated =>
    \A id \in ChatIds, r \in OrderResults, t \in Clock :
      id \notin seenCallsRef \cup seenResultsRef \cup DOMAIN eventState.byId =>
        LET callStore   == CallFirst(id, r, t)
            resultStore == ResultFirst(id, r, t)
        IN  /\ id \in DOMAIN callStore.byId
            /\ id \in DOMAIN resultStore.byId
            /\ LET callFirst   == FinalEvent(callStore, id)
                   resultFirst == FinalEvent(resultStore, id)
               IN  /\ callFirst.status = resultFirst.status
                   /\ callFirst.status \in Terminal
                   /\ callFirst.result = resultFirst.result
                   /\ callFirst.position = resultFirst.position
                   /\ callFirst.position = {Len(eventState.order) + 1}
                   /\ callFirst.payload =
                        parseToolPayload(toolNameOf(id), argsOf(id))
                   /\ callStore.byId[id].toolName
                        = normalizeToolName(toolNameOf(id))
                   /\ resultFirst.payload =
                        [toolName |-> "unknown", raw |-> Obj(EmptyMap)]
                   /\ resultStore.byId[id].toolName = "unknown"

\* the call and the result of the bash invocation t1 were both streamed before
\* the scan ran: the scanner saw the result only and the event is `unknown`
C18_Witness ==
  /\ lastOp \in ScanOps
  /\ messages = <<UserMessage,
                  [role |-> "assistant",
                   parts |-> <<ToolPart("t1", "result", Str("file1\nfile2"))>>]>>
  /\ "t1" \in seenResultsRef \ seenCallsRef
  /\ eventState.byId["t1"].status = "success"
  /\ eventState.byId["t1"].payload = [toolName |-> "unknown", raw |-> Obj(EmptyMap)]

(* C19: on a conversation-context switch the call-ids-seen set, the         *)
(* result-ids-seen set, the start-time map and the Event Store are reset in *)
(* one step, and no scan runs in a state where the store is empty while a   *)
(* dedup structure holds entries, or where the dedup structures are empty   *)
(* while the store holds events.                                            *)
C19_ResetTogether ==
  [][ /\ lastOp' \in ResetOps =>
           /\ eventState' = initialEventState
           /\ seenCallsRef' = {}
           /\ seenResultsRef' = {}
           /\ callStartRef' = EmptyMap
      /\ lastOp' \in ScanOps =>
           /\ (eventState.order = <<>>) <=> (seenCallsRef \cup seenResultsRef = {})
           /\ DOMAIN eventState.byId = seenCallsRef \cup seenResultsRef
           /\ DOMAIN callStartRef = seenCallsRef
    ]_vars

\* a switch has just discarded the entries of the context left behind and
\* loaded a stored history that no scan has seen yet
C19_Witness ==
  /\ lastOp = "switch"
  /\ messages # <<>>
  /\ eventState = initialEventState
  /\ seenCallsRef = {} /\ seenResultsRef = {}
  /\ callStartRef = EmptyMap

(* C20: stop synthesizes an `aborted` result only for a call that is still  *)
(* open: when the last part of the last assistant message is a tool         *)
(* invocation in state `result`, stop leaves the message history (that      *)
(* invocation's state and result value) unchanged.                          *)
C20_StopKeepsFinishedResult ==
  [][ ( /\ lastOp' = "stop"
        /\ LastIsAssistant
        /\ LET parts == messages[Len(messages)].parts
           IN  /\ parts # <<>>
               /\ isToolInvocationPart(parts[Len(parts)])
               /\ parts[Len(parts)].toolInvocation.state = "result" ) =>
        messages' = messages
    ]_vars

-----------------------------------------------------------------------------
(* Classifier rules 3-6, computer field extraction *)

(* C21: for non-absent input the classifier rules 3-6 apply in order: a     *)
(* non-sentinel plain string yields `text`; an object with `type` image and *)
(* a string `data` yields `image` with that data; an object with `type`     *)
(* text and a non-sentinel string `text` yields `text`; every other value   *)
(* (image objects with non-string data, arrays, numbers, ...) yields        *)
(* `unknown` wrapping the raw value verbatim; the status is `success`.      *)
C21_ClassifierRules ==
  ( fn.op = "parseToolResult" /\ fn.raw # Undefined /\ fn.raw # Null ) =>
    LET raw     == fn.raw
        isImage == /\ raw.t = "object"
                   /\ Prop(raw, "type") = Str("image")
                   /\ Prop(raw, "data").t = "string"
        isText  == /\ raw.t = "object"
                   /\ Prop(raw, "type") = Str("text")
                   /\ Prop(raw, "text").t = "string"
    IN  CASE raw = Str(ABORTED) -> fn.result.type = "aborted"
          [] raw.t = "string" /\ raw # Str(ABORTED) ->
               /\ fn.result = [type |-> "text", text |-> raw]
               /\ fn.status = "success"
          [] isImage ->
               /\ fn.result = [type |-> "image", data |-> raw.f["data"]]
               /\ fn.status = "success"
          [] ~isImage /\ isText /\ raw.f["text"] = Str(ABORTED) ->
               fn.result.type = "aborted"
          [] ~isImage /\ isText /\ raw.f["text"] # Str(ABORTED) ->
               /\ fn.result = [type |-> "text", text |-> raw.f["text"]]
               /\ fn.status = "success"
          [] OTHER ->
               /\ fn.result = [type |-> "unknown", raw |-> raw]
               /\ fn.status = "success"

\* an image object whose `data` is a number was wrapped verbatim as `unknown`
C21_Witness ==
  /\ fn.op = "parseToolResult"
  /\ fn.raw.t = "object"
  /\ Prop(fn.raw, "type") = Str("image")
  /\ Prop(fn.raw, "data") = Num(7)
  /\ fn.result = [type |-> "unknown", raw |-> fn.raw]
  /\ fn.status = "success"

-----------------------------------------------------------------------------
(* Scanner contracts: durations *)

\* max(0, n)
NonNegative(n) == IF n > 0 THEN n ELSE 0

(* C22: every durationMs the scanner dispatches is non-negative and equals  *)
(* max(0, now - startTime): startTime is the clock reading recorded at the  *)
(* first sight of the id's call occurrence in the current context, or the   *)
(* reading of `now` taken for the default when no call was recorded (result *)
(* seen first, or call seen in a previous context); this holds also when    *)
(* the clock moves backwards between call and result.                       *)
C22_DurationFromStartTime ==
  [][ lastOp' \in ScanOps =>
        \* the start time is recorded once, at the first sight of the call
        /\ DOMAIN callStartRef' = seenCallsRef'
        /\ \A id \in seenCallsRef : callStartRef'[id] = callStartRef[id]
        /\ \A id \in seenCallsRef' \ seenCallsRef :
             \E i \in DOMAIN dispatched' :
               /\ dispatched'[i].type = "register-call"
               /\ dispatched'[i].event.id = id
               /\ dispatched'[i].event.timestamp = callStartRef'[id]
        \* what this scan dispatched
        /\ \A i \in DOMAIN dispatched' :
             dispatched'[i].type = "register-result" =>
               /\ dispatched'[i].durationMs >= 0
               /\ dispatched'[i].id \notin seenCallsRef' =>
                    dispatched'[i].durationMs \in 0 .. MaxClock
        \* what a scan dispatches for a result it sees first at the readings
        \* now (default of the start time) and nowAfter (duration)
        /\ hasHydrated =>
             \A id \in ChatIds \ seenResultsRef, r \in ChatResults,
                now \in Clock, nowAfter \in Clock :
               LET out == ScanPart(CurrentScanState, ResultOccurrence(id, r),
                                   now, nowAfter).out
                   startTime == IF id \in seenCallsRef THEN callStartRef[id]
                                ELSE now
               IN  /\ Len(out) = 1
                   /\ out[1].type = "register-result"
                   /\ out[1].durationMs = NonNegative(nowAfter - startTime)
                   /\ out[1].durationMs >= 0
    ]_vars

\* the call of an invocation was first seen at MaxClock; the scan that saw its
\* result read the clock at 0 (the time stamp of the call it registered next
\* to it) and dispatched the duration 0
C22_Witness ==
  /\ lastOp \in ScanOps
  /\ \E i, j \in DOMAIN dispatched :
       /\ dispatched[i].type = "register-result"
       /\ dispatched[i].durationMs = 0
       /\ dispatched[i].id \in seenCallsRef
       /\ callStartRef[dispatched[i].id] = MaxClock
       /\ dispatched[j].type = "register-call"
       /\ dispatched[j].event.timestamp = 0

-----------------------------------------------------------------------------
(* Scanner contracts: malformed occurrences *)

IsFor(action, id) ==
  IF action.type = "register-call" THEN action.event.id = id ELSE action.id = id

\* byId without the event of id
WithoutId(byId, id) == [k \in DOMAIN byId \ {id} |-> byId[k]]

(* C23: in a single scan an occurrence whose arguments or result value are  *)
(* malformed (wrong types, missing fields, unrecognized tool name) still    *)
(* produces its own dispatch, and every other first-seen occurrence of the  *)
(* history, before or after it, is dispatched exactly as it is without the  *)
(* malformed one.                                                           *)
C23_MalformedNeverBlocks ==
  fn.op = "scan" =>
    LET inv    == fn.part.toolInvocation
        id     == inv.toolCallId
        out    == fn.with.out
        mine   == SelectSeq(out, LAMBDA a : IsFor(a, id))
        others == SelectSeq(out, LAMBDA a : ~IsFor(a, id))
    IN  /\ Len(mine) = 1
        /\ out[fn.position] = mine[1]
        /\ IF inv.state = "call"
           THEN /\ mine[1].type = "register-call"
                /\ mine[1].event.status = "running"
                /\ mine[1].event.payload.toolName = mine[1].event.toolName
                /\ id \in fn.with.seenCalls
           ELSE /\ mine[1].type = "register-result"
                /\ mine[1].status \in {"success", "aborted"}
                /\ id \in fn.with.seenResults
        /\ id \in DOMAIN fn.with.store.byId
        /\ others = fn.without.out
        /\ Len(others) = Len(WellFormedParts)
        /\ WithoutId(fn.with.store.byId, id) = fn.without.store.byId
        /\ SelectSeq(fn.with.store.order, LAMBDA x : x # id) = fn.without.store.order
        /\ fn.with.seenCalls \ {id} = fn.without.seenCalls
        /\ fn.with.seenResults \ {id} = fn.without.seenResults

\* a call of an unrecognized tool with a number as arguments stood between the
\* two well-formed occurrences: three dispatches, its own the second
C23_Witness ==
  /\ fn.op = "scan"
  /\ fn.position = 2
  /\ fn.part.toolInvocation.toolName = "browser"
  /\ fn.part.toolInvocation.args = Num(7)
  /\ Len(fn.with.out) = 3
  /\ fn.with.out[2].type = "register-call"
  /\ fn.with.out[2].event.payload = [toolName |-> "unknown", raw |-> Obj(EmptyMap)]
  /\ fn.with.out[1].type = "register-call"
  /\ fn.with.out[3].type = "register-result"
  /\ fn.with.out[3].result = [type |-> "image", data |-> Str("abc123")]

-----------------------------------------------------------------------------
(* Normalizer contract: the optional fields of a computer payload *)

\* the optional fields of ComputerPayload that C24 names
OptionalFields == {"coordinate", "text", "duration", "scroll_amount"}

\* args.k for any arguments value: undefined unless args is a record with k
FieldOf(args, k) ==
  IF args.t = "object" /\ k \in DOMAIN args.f THEN args.f[k] ELSE Undefined

IsNumberPair(v) ==
  /\ v.t = "array"
  /\ Len(v.xs) = 2
  /\ v.xs[1].t = "number"
  /\ v.xs[2].t = "number"

IsFiniteNumber(v) == v.t = "number" /\ v.finite

(* C24: for tool-kind `computer` each optional field is extracted           *)
(* independently of the others: `coordinate` is kept only when it is a      *)
(* two-element array of numbers, `text` only when a string, `duration` and  *)
(* `scroll_amount` only when finite numbers; a field that fails its check   *)
(* is omitted without affecting any other field ({action: left_click,       *)
(* coordinate: [10,20]} yields action left_click, coordinate [10,20] and    *)
(* every other optional field undefined).                                   *)
C24_ComputerFieldsIndependent ==
  ( fn.op = "parseToolPayload" /\ fn.toolName = "computer" ) =>
    /\ DOMAIN fn.payload = {"toolName", "action", "scroll_direction"}
                             \cup OptionalFields
    /\ fn.payload.coordinate =
         IF IsNumberPair(FieldOf(fn.args, "coordinate"))
         THEN FieldOf(fn.args, "coordinate") ELSE Undefined
    /\ fn.payload.text =
         IF FieldOf(fn.args, "text").t = "string"
         THEN FieldOf(fn.args, "text") ELSE Undefined
    /\ fn.payload.duration =
         IF IsFiniteNumber(FieldOf(fn.args, "duration"))
         THEN FieldOf(fn.args, "duration") ELSE Undefined
    /\ fn.payload.scroll_amount =
         IF IsFiniteNumber(FieldOf(fn.args, "scroll_amount"))
         THEN FieldOf(fn.args, "scroll_amount") ELSE Undefined
    \* a field of the payload depends on that field of the arguments only
    /\ \A other \in RawArgs, k \in OptionalFields :
         FieldOf(other, k) = FieldOf(fn.args, k) =>
           parseToolPayload("computer", other)[k] = fn.payload[k]
    /\ fn.args = Obj([action |-> Str("left_click"),
                      coordinate |-> Arr(<<Num(10), Num(20)>>)]) =>
         fn.payload = [toolName         |-> "computer",
                       action           |-> Str("left_click"),
                       coordinate       |-> Arr(<<Num(10), Num(20)>>),
                       text             |-> Undefined,
                       duration         |-> Undefined,
                       scroll_amount    |-> Undefined,
                       scroll_direction |-> Undefined]

\* a `wait` action with a NaN duration and a coordinate whose first element
\* is a string: both fields are omitted, the action is kept
C24_Witness ==
  /\ fn.op = "parseToolPayload"
  /\ fn.toolName = "computer"
  /\ FieldOf(fn.args, "duration") = NaN
  /\ FieldOf(fn.args, "coordinate") = Arr(<<Str("10"), Num(20)>>)
  /\ fn.payload.action = Str("wait")
  /\ fn.payload.duration = Undefined
  /\ fn.payload.coordinate = Undefined

-----------------------------------------------------------------------------
(* Scanner contracts: contexts, dedup memory, tool names *)

\* the non-empty invocation ids that occur in a history, in state `call` or
\* `result`
HistoryIds(msgs) == IdsOf(AllParts(msgs)) \ {""}

(* C25: after a context switch followed by a scan of the new context's      *)
(* history H, the ids of the Event Store are exactly the non-empty          *)
(* invocation ids that occur in H, one event per id: nothing of the context *)
(* left behind remains and no invocation of H is lost, also when H holds    *)
(* result-state occurrences only and when an id of the previous context     *)
(* occurs in H again.                                                       *)
C25_StoreIsHistoryAfterSwitch ==
  [][ ( lastOp \in ResetOps /\ lastOp' \in ScanOps ) =>
        /\ DOMAIN eventState'.byId = HistoryIds(messages)
        /\ Range(eventState'.order) = HistoryIds(messages)
        /\ NoDuplicates(eventState'.order)
        /\ \A id \in HistoryIds(messages) :
             /\ eventState'.byId[id].id = id
             /\ HasOccurrence(messages, id, "result") =>
                  eventState'.byId[id].status \in Terminal
             /\ ~HasOccurrence(messages, id, "result") =>
                  eventState'.byId[id].status = "running"
    ]_vars

\* the scan after a switch that discarded the entries of the context left
\* found a reloaded history of result-state occurrences: the store holds its
\* one identified invocation and nothing else
C25_Witness ==
  /\ lastOp = "switchscan"
  /\ messages \in StoredHistories
  /\ messages # <<>>
  /\ ~HasOccurrence(messages, "t1", "call")
  /\ DOMAIN eventState.byId = {"t1"}
  /\ eventState.order = <<"t1">>
  /\ eventState.byId["t1"].status = "success"

(* C26: between scans every id of call-ids-seen or result-ids-seen has an   *)
(* event in `byId` (and a place in `order`, the displayed list), and every  *)
(* id of call-ids-seen has an entry in the start-time map.                  *)
C26_SeenIdsHaveEvents ==
  /\ seenCallsRef \cup seenResultsRef \subseteq DOMAIN eventState.byId
  /\ seenCallsRef \cup seenResultsRef \subseteq Range(eventState.order)
  /\ seenCallsRef \subseteq DOMAIN callStartRef

\* a scan has marked one id as a seen call and another as a seen result only
C26_Witness ==
  /\ lastOp \in ScanOps
  /\ seenCallsRef \ seenResultsRef # {}
  /\ seenResultsRef \ seenCallsRef # {}
  /\ Len(eventState.order) = 2

\* the tool name and the payload the call branch derives from one raw tool name
NormalizedNameIsPayloadName ==
  \A toolName \in RawToolNames, args \in RawArgs :
    /\ normalizeToolName(toolName) = parseToolPayload(toolName, args).toolName
    /\ normalizeToolName(toolName) \in {"computer", "bash", "unknown"}

(* C27: in every state reachable through the scanner each event's toolName  *)
(* equals its payload's toolName (computer, bash or unknown), also for an   *)
(* event synthesized from a result without call, each event is stored under *)
(* its own id and every key of `byId` is in `order`.                        *)
C27_ToolNameMatchesPayload ==
  /\ \A k \in DOMAIN eventState.byId :
       LET event == eventState.byId[k] IN
       /\ event.toolName = event.payload.toolName
       /\ event.toolName \in {"computer", "bash", "unknown"}
       /\ event.id = k
       /\ k \in Range(eventState.order)
  /\ NormalizedNameIsPayloadName

\* the store holds a bash event registered from its call and an event
\* synthesized from the result of a browser invocation whose call no scan saw
C27_Witness ==
  /\ lastOp \in ScanOps
  /\ "t1" \in seenCallsRef
  /\ "t2" \in seenResultsRef \ seenCallsRef
  /\ eventState.byId["t1"].toolName = "bash"
  /\ eventState.byId["t1"].payload.toolName = "bash"
  /\ eventState.byId["t2"].toolName = "unknown"
  /\ eventState.byId["t2"].payload = [toolName |-> "unknown", raw |-> Obj(EmptyMap)]

====
